---------------------------- MODULE Spec2Model ----------------------------
(* Mini Pokedex Lite resource server (mcp-crash-course-project-resources)   *)
(* and the LangChain MCP client (mcp-crash-course-project-langchain-mcp-    *)
(* adapters), as state machines.                                            *)
(*                                                                          *)
(* Python values are modelled as follows.                                   *)
(*   str          a sequence of one-character strings, <<"m","e","w">>      *)
(*   JSON value   a record tagged by k: "null", "int", "str", "list",       *)
(*                "dict" (v: the payload; a dict's v is a function on keys) *)
(*   float x/10   the rational [num |-> x, den |-> 10]                      *)
(*   evaluation   [ok |-> TRUE, val |-> v] or                               *)
(*                [ok |-> FALSE, exc |-> class, cause |-> str(e)], the      *)
(*                cause a sequence of fragments like an f-string            *)
(*   f-string     the sequence of its fragments                             *)
EXTENDS Integers, Sequences, FiniteSets, TLC

VARIABLES
    starters,   \* the module-level STARTERS table (main.py:30)
    pc,         \* per request: "idle", "awaiting" (suspended at client.get), "done"
    handler,    \* per request: the resource handler serving it
    arg,        \* per request: the URI parameter
    response,   \* per request: what the awaited client.get produced
    outcome,    \* per request: the record returned or the exception raised
    gets,       \* per request: outbound GETs issued
    cpc,        \* client: position in the script / main()
    credential, \* client: whether GROQ_API_KEY is available to os.getenv
    child,      \* client: the stdio_client subprocess, "none" | "running" | "closed"
    session,    \* client: the ClientSession, "none" | "open" | "closed"
    tools,      \* client: the tool catalog load_mcp_tools returned
    calls,      \* client: tools the agent invoked during ainvoke
    steps,      \* client: the steps executed so far, in order
    failed      \* client: the step at which an exception was raised, or "none"

serverVars == <<starters, pc, handler, arg, response, outcome, gets>>
clientVars == <<cpc, credential, child, session, tools, calls, steps, failed>>
vars == <<starters, pc, handler, arg, response, outcome, gets,
          cpc, credential, child, session, tools, calls, steps, failed>>

----------------------------------------------------------------------------
(* Bounds of the model *)

MaxRequests == 2    \* resource requests the server receives
MaxMembers == 11    \* longest upstream member list of a type payload
MaxDm == 1          \* upstream height / weight range over -MaxDm..MaxDm
MaxToolCalls == 2   \* tool invocations the agent makes in one run

Reqs == 1..MaxRequests

----------------------------------------------------------------------------
(* Python strings *)

LowerCase == <<"a","b","c","d","e","f","g","h","i","j","k","l","m",
               "n","o","p","q","r","s","t","u","v","w","x","y","z">>
UpperCase == <<"A","B","C","D","E","F","G","H","I","J","K","L","M",
               "N","O","P","Q","R","S","T","U","V","W","X","Y","Z">>

Upper(c) ==
    IF \E i \in 1..Len(LowerCase) : LowerCase[i] = c
    THEN UpperCase[CHOOSE i \in 1..Len(LowerCase) : LowerCase[i] = c]
    ELSE c

Lower(c) ==
    IF \E i \in 1..Len(UpperCase) : UpperCase[i] = c
    THEN LowerCase[CHOOSE i \in 1..Len(UpperCase) : UpperCase[i] = c]
    ELSE c

CapitalizeIdentity(s) == s

\* str.capitalize(): first character upper-cased, the rest lower-cased.
Capitalize(s) ==
    [i \in 1..Len(s) |-> IF i = 1 THEN Upper(s[i]) ELSE Lower(s[i])]

----------------------------------------------------------------------------
(* JSON values and the Python operations the handlers apply to them *)

JNull == [k |-> "null"]
JInt(n) == [k |-> "int", v |-> n]
JStr(s) == [k |-> "str", v |-> s]
JList(items) == [k |-> "list", v |-> items]
JDict(f) == [k |-> "dict", v |-> f]

Ok(v) == [ok |-> TRUE, val |-> v]
Err(e, c) == [ok |-> FALSE, exc |-> e, cause |-> c]

\* x[key] with a string key: only a dict accepts it; a missing key is a
\* KeyError, any other receiver (None, int, str, list) is a TypeError.
GetItem(r, key) ==
    IF ~r.ok THEN r
    ELSE IF r.val.k = "dict"
         THEN IF key \in DOMAIN r.val.v THEN Ok(r.val.v[key])
              ELSE Err("KeyError", <<"'", key, "'">>)
         ELSE Err("TypeError", <<"object is not subscriptable">>)

\* x.capitalize(): only str has the method.
CapitalizeOf(r) ==
    IF ~r.ok THEN r
    ELSE IF r.val.k = "str" THEN Ok(Capitalize(r.val.v))
         ELSE Err("AttributeError", <<"object has no attribute 'capitalize'">>)

TrueDivNoConversion(r, d) ==
    IF ~r.ok THEN r
    ELSE IF r.val.k = "int" THEN Ok([num |-> r.val.v, den |-> 1])
         ELSE Err("TypeError", <<"unsupported operand type(s) for /">>)

\* x / d: defined on numbers only.
TrueDiv(r, d) ==
    IF ~r.ok THEN r
    ELSE IF r.val.k = "int" THEN Ok([num |-> r.val.v, den |-> d])
         ELSE Err("TypeError", <<"unsupported operand type(s) for /">>)

\* The elements a for-loop over x visits: a list's items, a str's characters;
\* None and int are not iterable.  (No payload of the upstream model puts a
\* dict where the handlers iterate or slice.)
Iterate(r) ==
    IF ~r.ok THEN r
    ELSE IF r.val.k = "list" THEN Ok(r.val.v)
    ELSE IF r.val.k = "str"
         THEN Ok([i \in 1..Len(r.val.v) |-> JStr(<<r.val.v[i]>>)])
    ELSE Err("TypeError", <<"object is not iterable">>)

Min(a, b) == IF a <= b THEN a ELSE b

SliceLast(r, n) ==
    IF ~r.ok THEN r
    ELSE IF r.val.k = "list"
         THEN Ok(JList(SubSeq(r.val.v, Len(r.val.v) - Min(n, Len(r.val.v)) + 1,
                              Len(r.val.v))))
    ELSE IF r.val.k = "str" THEN Ok(JStr(SubSeq(r.val.v, 1, Min(n, Len(r.val.v)))))
    ELSE Err("TypeError", <<"object is not subscriptable">>)

\* x[:n]: the first n items of a list or str (all of them when shorter).
Slice(r, n) ==
    IF ~r.ok THEN r
    ELSE IF r.val.k = "list" THEN Ok(JList(SubSeq(r.val.v, 1, Min(n, Len(r.val.v)))))
    ELSE IF r.val.k = "str" THEN Ok(JStr(SubSeq(r.val.v, 1, Min(n, Len(r.val.v)))))
    ELSE Err("TypeError", <<"object is not subscriptable">>)

\* len(x)
LenOf(r) ==
    IF ~r.ok THEN r
    ELSE IF r.val.k \in {"list", "str"} THEN Ok(Len(r.val.v))
    ELSE IF r.val.k = "dict" THEN Ok(Cardinality(DOMAIN r.val.v))
    ELSE Err("TypeError", <<"object has no len()">>)

\* [f(x) for x in items]: the results in order, or the exception of the first
\* element whose evaluation raises.  rs is the sequence of evaluations.
Comprehension(rs) ==
    LET bad == {i \in 1..Len(rs) : ~rs[i].ok}
    IN  IF bad = {} THEN Ok([i \in 1..Len(rs) |-> rs[i].val])
        ELSE rs[CHOOSE i \in bad : \A j \in bad : i <= j]

\* The first evaluation of rs that raised, or Ok(v) when none did: the operands
\* of a dict display are evaluated left to right.
FirstError(rs, v) ==
    LET bad == {i \in 1..Len(rs) : ~rs[i].ok}
    IN  IF bad = {} THEN Ok(v)
        ELSE rs[CHOOSE i \in bad : \A j \in bad : i <= j]

----------------------------------------------------------------------------
(* Exceptions and outcomes of a handler *)

\* Subclasses of httpx.RequestError that a failed client.get raises.
RequestErrors == {"ConnectTimeout", "ReadTimeout", "ConnectError"}

\* Subclasses of ValueError (json.JSONDecodeError is one) and KeyError.
ProcessingErrors == {"KeyError", "ValueError", "JSONDecodeError"}

Return(v) == [kind |-> "return", value |-> v]
Raise(e, m) == [kind |-> "raise", exc |-> e, msg |-> m]
ResourceError(m) == Raise("ResourceError", m)

\* response.json(): the decoded body, or JSONDecodeError when it is not JSON.
Json(resp) ==
    IF resp.body.json THEN Ok(resp.body.data)
    ELSE Err("JSONDecodeError", <<"Expecting value">>)

ExceptTimeoutOnly(r, fetchPrefix, procPrefix) ==
    IF r.ok THEN Return(r.val)
    ELSE IF r.exc \in {"ConnectTimeout", "ReadTimeout"}
         THEN ResourceError(<<fetchPrefix>> \o r.cause)
    ELSE IF r.exc \in ProcessingErrors
         THEN ResourceError(<<procPrefix>> \o r.cause)
    ELSE Raise(r.exc, r.cause)

ExceptAll(r, fetchPrefix, procPrefix) ==
    IF r.ok THEN Return(r.val)
    ELSE IF r.exc \in RequestErrors \cup {"ResourceError"}
         THEN ResourceError(<<fetchPrefix>> \o r.cause)
    ELSE ResourceError(<<procPrefix>> \o r.cause)

\* The two except clauses of a handler applied to the evaluation r of its try
\* body: RequestError and (KeyError, ValueError) are re-raised as ResourceError
\* with the clause's message; any other exception leaves the handler as it is.
Except(r, fetchPrefix, procPrefix) ==
    IF r.ok THEN Return(r.val)
    ELSE IF r.exc \in RequestErrors
         THEN ResourceError(<<fetchPrefix>> \o r.cause)
    ELSE IF r.exc \in ProcessingErrors
         THEN ResourceError(<<procPrefix>> \o r.cause)
    ELSE Raise(r.exc, r.cause)

\* The status test at the head of the try body.
StatusCheck(resp, notFound) ==
    IF resp.status = 404 THEN Err("ResourceError", notFound)
    ELSE IF resp.status # 200
         THEN Err("ResourceError", <<"PokeAPI error: HTTP ", ToString(resp.status)>>)
    ELSE Ok(resp)

\* await client.get(url): the response, or the transport's exception.
AwaitGet(resp) ==
    IF resp.kind = "transport" THEN Err(resp.exc, <<resp.cause>>)
    ELSE Ok(resp)

----------------------------------------------------------------------------
(* list_starters *)

STARTERS ==
    << <<<<"1">>, <<"b","u","l","b","a","s","a","u","r">> >>,
       <<<<"4">>, <<"c","h","a","r","m","a","n","d","e","r">> >>,
       <<<<"7">>, <<"s","q","u","i","r","t","l","e">> >> >>

\* The dict list_starters returns for the table t (pairs in insertion order).
StartersListing(t) ==
    [starters |-> [i \in 1..Len(t) |->
                      [id |-> t[i][1],
                       name |-> Capitalize(t[i][2]),
                       uri |-> <<"poke://pokemon/", t[i][1]>>]],
     total |-> Len(t)]

----------------------------------------------------------------------------
(* get_pokemon *)

PokemonUrl(id) == <<"https://pokeapi.co/api/v2/pokemon/", id>>

\* [x[k1][k2] for x in data[field]]
NamesOf(data, field, k1, k2) ==
    LET it == Iterate(GetItem(data, field))
    IN  IF ~it.ok THEN it
        ELSE Comprehension([i \in 1..Len(it.val) |->
                               GetItem(GetItem(Ok(it.val[i]), k1), k2)])

\* {stat["stat"]["name"]: stat["base_stat"] for stat in data["stats"]}: key
\* then value are evaluated per element; a later equal key overwrites.
BaseStats(data) ==
    LET it == Iterate(GetItem(data, "stats"))
        item(x) ==
            LET key == GetItem(GetItem(Ok(x), "stat"), "name")
                val == GetItem(Ok(x), "base_stat")
            IN  IF ~key.ok THEN key
                ELSE IF ~val.ok THEN val
                ELSE IF key.val.k \in {"list", "dict"}
                     THEN Err("TypeError", <<"unhashable type">>)
                ELSE Ok([key |-> key.val, value |-> val.val])
    IN  IF ~it.ok THEN it
        ELSE LET ps == Comprehension([i \in 1..Len(it.val) |-> item(it.val[i])])
             IN  IF ~ps.ok THEN ps
                 ELSE Ok([key \in {ps.val[i].key : i \in 1..Len(ps.val)} |->
                            ps.val[CHOOSE i \in 1..Len(ps.val) :
                                     /\ ps.val[i].key = key
                                     /\ \A j \in 1..Len(ps.val) :
                                            ps.val[j].key = key => j <= i].value])

\* The dict display of lines 74-87, its entries evaluated in source order.
PokemonRecord(pokemon_id_or_name, data) ==
    LET id == GetItem(data, "id")
        name == CapitalizeOf(GetItem(data, "name"))
        height == TrueDiv(GetItem(data, "height"), 10)
        weight == TrueDiv(GetItem(data, "weight"), 10)
        types == NamesOf(data, "types", "type", "name")
        abilities == NamesOf(data, "abilities", "ability", "name")
        base_stats == BaseStats(data)
        sprite == GetItem(GetItem(data, "sprites"), "front_default")
        entries == <<id, name, height, weight, types, abilities, base_stats, sprite>>
    IN  IF \E i \in 1..Len(entries) : ~entries[i].ok
        THEN FirstError(entries, JNull)
        ELSE Ok([id |-> id.val,
                 name |-> name.val,
                 height |-> height.val,
                 weight |-> weight.val,
                 types |-> types.val,
                 abilities |-> abilities.val,
                 base_stats |-> base_stats.val,
                 sprite |-> sprite.val,
                 api_url |-> PokemonUrl(pokemon_id_or_name)])

\* The try body of get_pokemon from the completed await on.
PokemonTry(pokemon_id_or_name, resp) ==
    LET got == AwaitGet(resp)
        checked == IF ~got.ok THEN got
                   ELSE StatusCheck(resp, <<"Pokémon with ID/name '",
                                            pokemon_id_or_name, "' not found">>)
        data == IF ~checked.ok THEN checked ELSE Json(resp)
    IN  IF ~data.ok THEN data ELSE PokemonRecord(pokemon_id_or_name, data)

\* What get_pokemon returns or raises, given what client.get produced.
PokemonOutcome(pokemon_id_or_name, resp) ==
    Except(PokemonTry(pokemon_id_or_name, resp),
           "Failed to fetch Pokémon data: ", "Error processing Pokémon data: ")

----------------------------------------------------------------------------
(* get_pokemon_by_type *)

TypeUrl(type_name) == <<"https://pokeapi.co/api/v2/type/", type_name>>

\* One entry of the "pokemon" list comprehension (lines 125-128).
TypeEntry(p) ==
    LET name == CapitalizeOf(GetItem(GetItem(Ok(p), "pokemon"), "name"))
        raw == GetItem(GetItem(Ok(p), "pokemon"), "name")
    IN  IF ~name.ok THEN name
        ELSE Ok([name |-> name.val, uri |-> <<"poke://pokemon/", raw.val.v>>])

\* Lines 117-131: the slice, then the dict display in source order.
TypeSummary(type_name, data) ==
    LET pokemon_list == Slice(GetItem(data, "pokemon"), 10)
        type_id == GetItem(data, "id")
        pokemon_count == LenOf(GetItem(data, "pokemon"))
        showing == LenOf(pokemon_list)
        it == Iterate(pokemon_list)
        pokemon == IF ~it.ok THEN it
                   ELSE Comprehension([i \in 1..Len(it.val) |-> TypeEntry(it.val[i])])
        entries == <<pokemon_list, type_id, pokemon_count, showing, pokemon>>
    IN  IF \E i \in 1..Len(entries) : ~entries[i].ok
        THEN FirstError(entries, JNull)
        ELSE Ok([type |-> Capitalize(type_name),
                 type_id |-> type_id.val,
                 pokemon_count |-> pokemon_count.val,
                 showing |-> showing.val,
                 pokemon |-> pokemon.val])

\* The try body of get_pokemon_by_type from the completed await on.
TypeTry(type_name, resp) ==
    LET got == AwaitGet(resp)
        checked == IF ~got.ok THEN got
                   ELSE StatusCheck(resp, <<"Type '", type_name, "' not found">>)
        data == IF ~checked.ok THEN checked ELSE Json(resp)
    IN  IF ~data.ok THEN data ELSE TypeSummary(type_name, data)

\* What get_pokemon_by_type returns or raises, given what client.get produced.
TypeOutcome(type_name, resp) ==
    Except(TypeTry(type_name, resp),
           "Failed to fetch type data: ", "Error processing type data: ")

----------------------------------------------------------------------------
(* The upstream: what an awaited client.get can produce *)

Http(status, body) == [kind |-> "http", status |-> status, body |-> body]
NotJson == [json |-> FALSE]
JsonBody(d) == [json |-> TRUE, data |-> d]

TransportFailures ==
    {[kind |-> "transport", exc |-> "ConnectTimeout", cause |-> "timed out"],
     [kind |-> "transport", exc |-> "ConnectError",
      cause |-> "All connection attempts failed"]}

\* Statuses other than 200; httpx follows no redirect and raises on none.
ErrorStatuses == {204, 404, 500}

Without(d, f) == JDict([key \in DOMAIN d.v \ {f} |-> d.v[key]])
With(d, f, x) == JDict([d.v EXCEPT ![f] = x])

DmRange == (0 - MaxDm)..MaxDm

PokemonArgs == {<<"1">>, <<"m","e","w">>}

WellFormedPokemon(h, w, sprite) ==
    JDict([id |-> JInt(151),
           name |-> JStr(<<"m","e","w">>),
           height |-> JInt(h),
           weight |-> JInt(w),
           types |-> JList(<<JDict([slot |-> JInt(1),
                                    type |-> JDict([name |-> JStr(<<"i","c","e">>)])])>>),
           abilities |-> JList(<<JDict([ability |-> JDict([name |-> JStr(<<"s","y","n">>)])])>>),
           stats |-> JList(<<JDict([base_stat |-> JInt(100),
                                    stat |-> JDict([name |-> JStr(<<"h","p">>)])]),
                             JDict([base_stat |-> JInt(90),
                                    stat |-> JDict([name |-> JStr(<<"s","p","e">>)])])>>),
           sprites |-> JDict([front_default |-> sprite])])

PokemonFields ==
    {"id", "name", "height", "weight", "types", "abilities", "stats", "sprites"}

WellFormedPokemons ==
    {WellFormedPokemon(h, w, JStr(<<"u","r","l">>)) : h \in DmRange, w \in DmRange}
    \cup {WellFormedPokemon(MaxDm, MaxDm, JNull)}

\* Payloads with one expected key missing or one field of the wrong type.
MalformedPokemons ==
    LET base == WellFormedPokemon(MaxDm, MaxDm, JStr(<<"u","r","l">>))
    IN  {Without(base, f) : f \in PokemonFields}
        \cup {With(base, f, JNull) : f \in PokemonFields}
        \cup {With(base, f, JInt(3)) :
                 f \in {"name", "types", "abilities", "stats", "sprites"}}
        \cup {With(base, "height", JStr(<<"7">>)),
              With(base, "types", JList(<<JDict([slot |-> JInt(1)])>>)),
              With(base, "sprites", JDict([back_default |-> JNull])),
              JList(<<>>),
              JNull}

PokemonResponses ==
    TransportFailures
    \cup {Http(st, NotJson) : st \in ErrorStatuses \cup {200}}
    \cup {Http(200, JsonBody(d)) : d \in WellFormedPokemons \cup MalformedPokemons}

\* A few responses of each kind, for the runs with several requests.
PokemonSample ==
    LET base == WellFormedPokemon(MaxDm, MaxDm, JStr(<<"u","r","l">>))
    IN  TransportFailures
        \cup {Http(st, NotJson) : st \in ErrorStatuses \cup {200}}
        \cup {Http(200, JsonBody(d)) :
                 d \in {base, Without(base, "height"), With(base, "height", JNull)}}

TypeArgs == {<<"i","c","e">>, <<"B","u","G">>}

\* The i-th entry of the upstream catalogue: the names are pairwise distinct.
Member(i) ==
    JDict([slot |-> JInt(1),
           pokemon |-> JDict([name |-> JStr(<<"p", LowerCase[i]>>)])])

\* A type payload whose member list is n catalogue entries from the first or
\* from the second on.
WellFormedType(n, from) ==
    JDict([id |-> JInt(15),
           name |-> JStr(<<"i","c","e">>),
           pokemon |-> JList([i \in 1..n |-> Member(i + from - 1)])])

WellFormedTypes == {WellFormedType(n, from) : n \in 0..MaxMembers, from \in 1..2}

MalformedTypes ==
    LET base == WellFormedType(2, 1)
    IN  {Without(base, "pokemon"),
         Without(base, "id"),
         With(base, "pokemon", JNull),
         With(base, "pokemon", JInt(3)),
         With(base, "pokemon", JList(<<Member(1), JDict([slot |-> JInt(1)])>>)),
         With(base, "pokemon", JList(<<JDict([slot |-> JInt(1), pokemon |-> JNull])>>)),
         With(base, "pokemon",
              JList(<<JDict([slot |-> JInt(1),
                             pokemon |-> JDict([name |-> JInt(3)])])>>)),
         JList(<<>>),
         JNull}

TypeResponses ==
    TransportFailures
    \cup {Http(st, NotJson) : st \in ErrorStatuses \cup {200}}
    \cup {Http(200, JsonBody(d)) : d \in WellFormedTypes \cup MalformedTypes}

TypeSample ==
    LET base == WellFormedType(2, 1)
    IN  TransportFailures
        \cup {Http(st, NotJson) : st \in ErrorStatuses \cup {200}}
        \cup {Http(200, JsonBody(d)) :
                 d \in {base, Without(base, "pokemon"), With(base, "pokemon", JNull)}}

----------------------------------------------------------------------------
(* The resource server: requests, each suspended at most at its one await *)

None == [kind |-> "none"]

ServerInit ==
    /\ starters = STARTERS
    /\ pc = [r \in Reqs |-> "idle"]
    /\ handler = [r \in Reqs |-> "none"]
    /\ arg = [r \in Reqs |-> <<>>]
    /\ response = [r \in Reqs |-> None]
    /\ outcome = [r \in Reqs |-> None]
    /\ gets = [r \in Reqs |-> 0]

\* Requests are numbered in the order the server receives them.
Arrives(r) ==
    /\ pc[r] = "idle"
    /\ \A q \in Reqs : q < r => pc[q] # "idle"

list_starters_pop(r) ==
    /\ Arrives(r)
    /\ pc' = [pc EXCEPT ![r] = "done"]
    /\ handler' = [handler EXCEPT ![r] = "list_starters"]
    /\ outcome' = [outcome EXCEPT ![r] = Return(StartersListing(starters))]
    /\ starters' = SubSeq(starters, 1, Len(starters) - 1)
    /\ UNCHANGED <<arg, response, gets>>
    /\ UNCHANGED clientVars

\* poke://starters: no await, the handler runs to completion.
list_starters(r) ==
    /\ Arrives(r)
    /\ pc' = [pc EXCEPT ![r] = "done"]
    /\ handler' = [handler EXCEPT ![r] = "list_starters"]
    /\ outcome' = [outcome EXCEPT ![r] = Return(StartersListing(starters))]
    /\ UNCHANGED <<starters, arg, response, gets>>
    /\ UNCHANGED clientVars

\* poke://pokemon/{id}: up to the suspension at await client.get (line 65).
get_pokemon_call(r) ==
    /\ Arrives(r)
    /\ \E id \in PokemonArgs : arg' = [arg EXCEPT ![r] = id]
    /\ pc' = [pc EXCEPT ![r] = "awaiting"]
    /\ handler' = [handler EXCEPT ![r] = "get_pokemon"]
    /\ gets' = [gets EXCEPT ![r] = @ + 1]
    /\ UNCHANGED <<starters, response, outcome>>
    /\ UNCHANGED clientVars

get_pokemon_resume_retry(r, upstream) ==
    /\ pc[r] = "awaiting"
    /\ handler[r] = "get_pokemon"
    /\ \E resp \in upstream :
          IF resp.kind = "transport" /\ gets[r] < 2
          THEN /\ gets' = [gets EXCEPT ![r] = @ + 1]
               /\ UNCHANGED <<response, outcome, pc>>
          ELSE /\ response' = [response EXCEPT ![r] = resp]
               /\ outcome' = [outcome EXCEPT ![r] = PokemonOutcome(arg[r], resp)]
               /\ pc' = [pc EXCEPT ![r] = "done"]
               /\ gets' = gets
    /\ UNCHANGED <<starters, handler, arg>>
    /\ UNCHANGED clientVars

\* get_pokemon resumed with what client.get produced (one of upstream), to its
\* return or raise.
get_pokemon_resume(r, upstream) ==
    /\ pc[r] = "awaiting"
    /\ handler[r] = "get_pokemon"
    /\ \E resp \in upstream :
          /\ response' = [response EXCEPT ![r] = resp]
          /\ outcome' = [outcome EXCEPT ![r] = PokemonOutcome(arg[r], resp)]
    /\ pc' = [pc EXCEPT ![r] = "done"]
    /\ UNCHANGED <<starters, handler, arg, gets>>
    /\ UNCHANGED clientVars

\* poke://types/{type_name}: up to the suspension at await client.get (line 107).
get_pokemon_by_type_call(r) ==
    /\ Arrives(r)
    /\ \E type_name \in TypeArgs : arg' = [arg EXCEPT ![r] = type_name]
    /\ pc' = [pc EXCEPT ![r] = "awaiting"]
    /\ handler' = [handler EXCEPT ![r] = "get_pokemon_by_type"]
    /\ gets' = [gets EXCEPT ![r] = @ + 1]
    /\ UNCHANGED <<starters, response, outcome>>
    /\ UNCHANGED clientVars

\* get_pokemon_by_type resumed with what client.get produced (one of upstream).
get_pokemon_by_type_resume(r, upstream) ==
    /\ pc[r] = "awaiting"
    /\ handler[r] = "get_pokemon_by_type"
    /\ \E resp \in upstream :
          /\ response' = [response EXCEPT ![r] = resp]
          /\ outcome' = [outcome EXCEPT ![r] = TypeOutcome(arg[r], resp)]
    /\ pc' = [pc EXCEPT ![r] = "done"]
    /\ UNCHANGED <<starters, handler, arg, gets>>
    /\ UNCHANGED clientVars


ClientIdle ==
    /\ cpc = "start"
    /\ credential = TRUE
    /\ child = "none"
    /\ session = "none"
    /\ tools = {}
    /\ calls = <<>>
    /\ steps = <<>>
    /\ failed = "none"

Init == ServerInit /\ ClientIdle

\* Several requests, interleaved at their awaits.
Next ==
    \E r \in Reqs :
        \/ list_starters(r)
        \/ get_pokemon_call(r)
        \/ get_pokemon_resume(r, PokemonSample)
        \/ get_pokemon_by_type_call(r)
        \/ get_pokemon_by_type_resume(r, TypeSample)

Spec == Init /\ [][Next]_vars

\* One request, over every response of the upstream model.
NextLookup ==
    \/ list_starters(1)
    \/ get_pokemon_call(1)
    \/ get_pokemon_resume(1, PokemonResponses)
    \/ get_pokemon_by_type_call(1)
    \/ get_pokemon_by_type_resume(1, TypeResponses)

SpecLookup == Init /\ [][NextLookup]_vars

----------------------------------------------------------------------------
(* The client: the module-level script and main() *)

\* The tools the spawned server may announce.
ToolNames == {"add", "multiply"}

\* An exception leaves the two async with blocks from the inside out: the
\* ClientSession when it was entered, then stdio_client.
Unwind == IF session = "open" THEN "closing_session" ELSE "closing_child"

\* Lines 17-26: load_dotenv, os.environ[...] = os.getenv(...), ChatGroq(...).
\* Assigning None to os.environ raises TypeError, before main() is reached.
load_config_lenient ==
    /\ cpc = "start"
    /\ steps' = Append(steps, "config")
    /\ cpc' = "configured"
    /\ UNCHANGED <<credential, child, session, tools, calls, failed>>
    /\ UNCHANGED serverVars

load_config ==
    /\ cpc = "start"
    /\ steps' = Append(steps, "config")
    /\ IF credential
       THEN cpc' = "configured" /\ failed' = failed
       ELSE cpc' = "crashed" /\ failed' = "config"
    /\ UNCHANGED <<credential, child, session, tools, calls>>
    /\ UNCHANGED serverVars

\* Line 29: entering stdio_client spawns the server process; when the spawn
\* raises there is nothing to release.
launch ==
    /\ cpc = "configured"
    /\ steps' = Append(steps, "launch")
    /\ \/ cpc' = "launched" /\ child' = "running" /\ failed' = failed
       \/ cpc' = "crashed" /\ child' = child /\ failed' = "launch"
    /\ UNCHANGED <<credential, session, tools, calls>>
    /\ UNCHANGED serverVars

\* Line 30: entering ClientSession.
open_session ==
    /\ cpc = "launched"
    /\ steps' = Append(steps, "session")
    /\ \/ cpc' = "session" /\ session' = "open" /\ failed' = failed
       \/ cpc' = "closing_child" /\ session' = session /\ failed' = "session"
    /\ UNCHANGED <<credential, child, tools, calls>>
    /\ UNCHANGED serverVars

initialize_no_unwind ==
    /\ cpc = "session"
    /\ steps' = Append(steps, "initialize")
    /\ \/ cpc' = "initialized" /\ failed' = failed
       \/ cpc' = "crashed" /\ failed' = "initialize"
    /\ UNCHANGED <<credential, child, session, tools, calls>>
    /\ UNCHANGED serverVars

\* Lines 31-32: await session.initialize().
initialize ==
    /\ cpc = "session"
    /\ steps' = Append(steps, "initialize")
    /\ \/ cpc' = "initialized" /\ failed' = failed
       \/ cpc' = Unwind /\ failed' = "initialize"
    /\ UNCHANGED <<credential, child, session, tools, calls>>
    /\ UNCHANGED serverVars

\* Lines 33-35: await load_mcp_tools(session).
load_tools ==
    /\ cpc = "initialized"
    /\ steps' = Append(steps, "tools")
    /\ \/ /\ \E catalog \in SUBSET ToolNames : tools' = catalog
          /\ cpc' = "tools"
          /\ failed' = failed
       \/ cpc' = Unwind /\ tools' = tools /\ failed' = "tools"
    /\ UNCHANGED <<credential, child, session, calls>>
    /\ UNCHANGED serverVars

\* Line 37: create_agent(llm, tools).
create_agent ==
    /\ cpc = "tools"
    /\ steps' = Append(steps, "agent")
    /\ \/ cpc' = "agent" /\ failed' = failed
       \/ cpc' = Unwind /\ failed' = "agent"
    /\ UNCHANGED <<credential, child, session, tools, calls>>
    /\ UNCHANGED serverVars

\* Line 39: agent.ainvoke is entered with the one fixed message.
ainvoke ==
    /\ cpc = "agent"
    /\ steps' = Append(steps, "invoke")
    /\ cpc' = "invoking"
    /\ UNCHANGED <<credential, child, session, tools, calls, failed>>
    /\ UNCHANGED serverVars

\* Inside ainvoke: the agent decides to call one of the catalog's tools.
tool_call ==
    /\ cpc = "invoking"
    /\ Len(calls) < MaxToolCalls
    /\ \E t \in tools : calls' = Append(calls, t)
    /\ UNCHANGED <<cpc, credential, child, session, tools, steps, failed>>
    /\ UNCHANGED serverVars

\* ainvoke returns the final state, or raises.
ainvoke_ends ==
    /\ cpc = "invoking"
    /\ \/ cpc' = "answered" /\ failed' = failed
       \/ cpc' = Unwind /\ failed' = "invoke"
    /\ UNCHANGED <<credential, child, session, tools, calls, steps>>
    /\ UNCHANGED serverVars

\* Line 40: print(result["messages"][-1].content); the inner block ends.
print_answer ==
    /\ cpc = "answered"
    /\ steps' = Append(steps, "print")
    /\ cpc' = "closing_session"
    /\ UNCHANGED <<credential, child, session, tools, calls, failed>>
    /\ UNCHANGED serverVars

\* Exit of async with ClientSession (line 30).
close_session ==
    /\ cpc = "closing_session"
    /\ session' = "closed"
    /\ cpc' = "closing_child"
    /\ UNCHANGED <<credential, child, tools, calls, steps, failed>>
    /\ UNCHANGED serverVars

\* Exit of async with stdio_client (line 29): the subprocess and its streams
\* are released; main() returns, or the exception leaves asyncio.run.
close_child ==
    /\ cpc = "closing_child"
    /\ child' = "closed"
    /\ cpc' = IF failed = "none" THEN "done" ELSE "crashed"
    /\ UNCHANGED <<credential, session, tools, calls, steps, failed>>
    /\ UNCHANGED serverVars

InitClient ==
    /\ ServerInit
    /\ cpc = "start"
    /\ credential \in BOOLEAN
    /\ child = "none"
    /\ session = "none"
    /\ tools = {}
    /\ calls = <<>>
    /\ steps = <<>>
    /\ failed = "none"

NextClient ==
    \/ load_config
    \/ launch
    \/ open_session
    \/ initialize
    \/ load_tools
    \/ create_agent
    \/ ainvoke
    \/ tool_call
    \/ ainvoke_ends
    \/ print_answer
    \/ close_session
    \/ close_child

SpecClient == InitClient /\ [][NextClient]_vars

----------------------------------------------------------------------------
(* Properties *)

Done(r) == pc[r] = "done"
IsLookup(r) == handler[r] \in {"get_pokemon", "get_pokemon_by_type"}
Got200(r) == response[r].kind = "http" /\ response[r].status = 200

FetchPrefix(h) ==
    IF h = "get_pokemon" THEN "Failed to fetch Pokémon data: "
    ELSE "Failed to fetch type data: "
ProcessingPrefix(h) ==
    IF h = "get_pokemon" THEN "Error processing Pokémon data: "
    ELSE "Error processing type data: "
NotFoundMessage(h, a) ==
    IF h = "get_pokemon" THEN <<"Pokémon with ID/name '", a, "' not found">>
    ELSE <<"Type '", a, "' not found">>

IsResourceError(o) == o.kind = "raise" /\ o.exc = "ResourceError"

\* A 200 body that is not JSON, lacks an expected key or has a field of the
\* wrong type.
Malformed(h, body) ==
    \/ ~body.json
    \/ /\ body.json
       /\ IF h = "get_pokemon" THEN body.data \in MalformedPokemons
          ELSE body.data \in MalformedTypes

\* C1: every request answered 200 with a malformed or incomplete payload ends
\* in a ResourceError carrying the handler's processing-error message.
C1_MalformedIsProcessingError ==
    \A r \in Reqs :
        (Done(r) /\ IsLookup(r) /\ Got200(r) /\ Malformed(handler[r], response[r].body))
        => /\ IsResourceError(outcome[r])
           /\ outcome[r].msg[1] = ProcessingPrefix(handler[r])

\* C2: the status code alone selects the outcome class: 404 ends in the
\* not-found ResourceError naming the identifier, any status other than 200 and
\* 404 in the ResourceError naming that status, and a record is returned only
\* on 200; neither error is re-raised with a fetch or processing message.
C2_StatusSelectsOutcome ==
    \A r \in Reqs :
        (Done(r) /\ IsLookup(r)) =>
            /\ (response[r].kind = "http" /\ response[r].status = 404)
               => /\ IsResourceError(outcome[r])
                  /\ outcome[r].msg = NotFoundMessage(handler[r], arg[r])
                  /\ outcome[r].msg[2] = arg[r]
            /\ (response[r].kind = "http" /\ response[r].status \notin {200, 404})
               => /\ IsResourceError(outcome[r])
                  /\ outcome[r].msg =
                        <<"PokeAPI error: HTTP ", ToString(response[r].status)>>
            /\ outcome[r].kind = "return" => Got200(r)

C2_Witness ==
    \E r1, r2 \in Reqs :
        /\ Done(r1) /\ handler[r1] = "get_pokemon"
        /\ response[r1].kind = "http" /\ response[r1].status = 404
        /\ IsResourceError(outcome[r1])
        /\ Done(r2) /\ handler[r2] = "get_pokemon_by_type"
        /\ response[r2].kind = "http" /\ response[r2].status = 500
        /\ IsResourceError(outcome[r2])

\* C3: a transport failure of the GET ends the request in a ResourceError whose
\* message is the handler's fetch-failed prefix followed by the cause; it never
\* leaves the handler as another exception and never yields a record.
C3_TransportFailureIsFetchFailed ==
    \A r \in Reqs :
        (Done(r) /\ IsLookup(r) /\ response[r].kind = "transport")
        => /\ IsResourceError(outcome[r])
           /\ outcome[r].msg = <<FetchPrefix(handler[r]), response[r].cause>>

C3_Witness ==
    \E r1, r2 \in Reqs :
        /\ Done(r1) /\ handler[r1] = "get_pokemon"
        /\ response[r1].kind = "transport" /\ response[r1].exc = "ConnectError"
        /\ Done(r2) /\ handler[r2] = "get_pokemon_by_type"
        /\ response[r2].kind = "transport" /\ response[r2].exc = "ConnectTimeout"

WellFormedTypeReply(r) ==
    /\ Done(r) /\ handler[r] = "get_pokemon_by_type" /\ Got200(r)
    /\ response[r].body.json
    /\ response[r].body.data \in WellFormedTypes

\* C4: for a well-formed type payload with n members the summary has
\* pokemon_count = n, showing = min(10, n), showing entries, and its i-th entry
\* is the i-th upstream member (name capitalized, locator of that name).
C4_TypeSummaryIsPrefix ==
    \A r \in Reqs :
        WellFormedTypeReply(r) =>
            LET members == response[r].body.data.v.pokemon.v
                n == Len(members)
                v == outcome[r].value
            IN  /\ outcome[r].kind = "return"
                /\ v.pokemon_count = n
                /\ v.showing = IF n < 10 THEN n ELSE 10
                /\ Len(v.pokemon) = v.showing
                /\ \A i \in 1..Len(v.pokemon) :
                      /\ v.pokemon[i].name = Capitalize(members[i].v.pokemon.v.name.v)
                      /\ v.pokemon[i].uri =
                            <<"poke://pokemon/", members[i].v.pokemon.v.name.v>>

C4_Witness ==
    \E r \in Reqs :
        /\ WellFormedTypeReply(r)
        /\ Len(response[r].body.data.v.pokemon.v) > 10
        /\ outcome[r].kind = "return"
        /\ outcome[r].value.showing = 10

ReturnedPokemon(r) ==
    Done(r) /\ handler[r] = "get_pokemon" /\ outcome[r].kind = "return"

NonNegative(q) == q.num * q.den >= 0

\* C5 as claimed: every returned record has non-negative height and weight.
C5_NonNegativeAlways ==
    \A r \in Reqs :
        ReturnedPokemon(r) =>
            /\ NonNegative(outcome[r].value.height)
            /\ NonNegative(outcome[r].value.weight)

\* C5 as amended: a returned record's height and weight are the upstream
\* height / 10 and weight / 10, so each is non-negative exactly when the
\* upstream value is.
C5_TenthOfUpstream ==
    \A r \in Reqs :
        ReturnedPokemon(r) =>
            LET d == response[r].body.data.v
                h == outcome[r].value.height
                w == outcome[r].value.weight
            IN  /\ h.den > 0 /\ h.num * 10 = d.height.v * h.den
                /\ w.den > 0 /\ w.num * 10 = d.weight.v * w.den
                /\ NonNegative(h) <=> d.height.v >= 0
                /\ NonNegative(w) <=> d.weight.v >= 0

C5_Witness ==
    \E r \in Reqs :
        /\ ReturnedPokemon(r)
        /\ response[r].body.data.v.height.v > 0
        /\ response[r].body.data.v.weight.v > 0
        /\ NonNegative(outcome[r].value.height)

\* The client's steps in source order.
StepOrder ==
    <<"config", "launch", "session", "initialize", "tools", "agent", "invoke", "print">>

\* C6: the steps executed are always an initial part of the one source order,
\* each at most once; the step that failed is the last one executed; without
\* the credential nothing after the configuration read runs and no child
\* process exists; nothing is printed after a failure.
C6_LinearRunAbortsOnFailure ==
    /\ Len(steps) <= Len(StepOrder)
    /\ \A i \in 1..Len(steps) : steps[i] = StepOrder[i]
    /\ failed # "none" => (steps # <<>> /\ steps[Len(steps)] = failed)
    /\ failed # "none" => \A i \in 1..Len(steps) : steps[i] # "print"
    /\ ~credential => (child = "none" /\ session = "none" /\ Len(steps) <= 1)
    /\ cpc = "done" => (failed = "none" /\ steps = StepOrder)

C6_Witness ==
    /\ ~credential
    /\ cpc = "crashed"
    /\ failed = "config"
    /\ steps = <<"config">>

\* C7: a run that has ended, normally or by a failure, has left neither the
\* session nor the child process open, and the session is closed before the
\* child process is.
C7_TornDownOnExit ==
    /\ cpc \in {"done", "crashed"} => (child # "running" /\ session # "open")
    /\ child = "closed" => session # "open"
    /\ session = "open" => child = "running"

C7_Witness ==
    /\ cpc = "crashed"
    /\ failed = "initialize"
    /\ child = "closed"
    /\ session = "closed"

\* C8: a finished lookup has issued exactly one GET and holds that GET's own
\* response, a suspended lookup has issued one, and list_starters issues none.
C8_OneGetPerLookup ==
    \A r \in Reqs :
        /\ pc[r] = "idle" => gets[r] = 0
        /\ pc[r] = "awaiting" => gets[r] = 1
        /\ Done(r) => gets[r] = IF handler[r] = "list_starters" THEN 0 ELSE 1
        /\ (Done(r) /\ IsLookup(r)) => response[r] # None
        /\ (Done(r) /\ handler[r] = "list_starters") => response[r] = None

C8_Witness ==
    \E r1, r2 \in Reqs :
        /\ Done(r1) /\ handler[r1] = "get_pokemon"
        /\ response[r1].kind = "transport" /\ gets[r1] = 1
        /\ Done(r2) /\ handler[r2] = "list_starters" /\ gets[r2] = 0

\* C9: two finished requests of the same handler with the same argument and
\* the same upstream response have the same outcome, whatever was served or
\* suspended meanwhile, and the STARTERS table is never modified.
C9_OutcomeDependsOnInputsOnly ==
    /\ starters = STARTERS
    /\ \A r1, r2 \in Reqs :
          (/\ Done(r1) /\ Done(r2)
           /\ handler[r1] = handler[r2]
           /\ arg[r1] = arg[r2]
           /\ response[r1] = response[r2])
          => outcome[r1] = outcome[r2]

C9_Witness ==
    \E r1, r2 \in Reqs :
        /\ r1 # r2
        /\ Done(r1) /\ Done(r2)
        /\ handler[r1] = "get_pokemon" /\ handler[r2] = "get_pokemon"
        /\ arg[r1] = arg[r2]
        /\ response[r1] = response[r2]
        /\ outcome[r1].kind = "return"

\* C10: list_starters returns three entries, for "1", "4" and "7" in table
\* order, each with the capitalized name and the locator poke://pokemon/{id},
\* and total = 3.
C10_StartersListing ==
    \A r \in Reqs :
        (Done(r) /\ handler[r] = "list_starters") =>
            LET v == outcome[r].value
            IN  /\ outcome[r].kind = "return"
                /\ Len(v.starters) = 3
                /\ v.total = Len(v.starters)
                /\ v.starters[1].id = <<"1">>
                /\ v.starters[1].name = <<"B","u","l","b","a","s","a","u","r">>
                /\ v.starters[2].id = <<"4">>
                /\ v.starters[2].name = <<"C","h","a","r","m","a","n","d","e","r">>
                /\ v.starters[3].id = <<"7">>
                /\ v.starters[3].name = <<"S","q","u","i","r","t","l","e">>
                /\ \A i \in 1..3 : v.starters[i].uri = <<"poke://pokemon/", v.starters[i].id>>

C10_Witness ==
    \E r \in Reqs :
        /\ Done(r) /\ handler[r] = "list_starters"
        /\ outcome[r].kind = "return"
        /\ outcome[r].value.total = 3
=============================================================================
